---- MODULE Spec2Model ----
(***************************************************************************)
(* BaseGasOptimizer (gas pricing engine) of base-dev-toolkit.              *)
(*                                                                         *)
(* One engine instance, one caller, and the RPC provider the engine talks  *)
(* to.  An asynchronous operation is split at its awaits: every provider   *)
(* response is one step, and the code between two awaits is part of the    *)
(* step that resumes it.                                                   *)
(*                                                                         *)
(* Units.  Gas prices are whole gwei (parseUnits('20','gwei') is 20), and  *)
(* the provider only quotes multiples of 10 gwei, so that mul(120).div(100)*)
(* and mul(90).div(100) give the same number in gwei as they do in wei.    *)
(* gasBuffer, a JavaScript double, is written in thousandths (1.1 is 1100).*)
(* A congestion, a JavaScript double too, is written in tenths (0.5 is 5). *)
(*                                                                         *)
(* drafts is the caller's side of the heap: the gas fields each of its     *)
(* draft transaction objects carries.  stats is what the getGasStats()     *)
(* call of the step just taken returned, and NoStats after any other step. *)
(*                                                                         *)
(* The contracts of the toolkit (BaseContractUtils, BaseMultiSigWallet,    *)
(* BaseStakingPool, BaseGovernance) each have their storage in one         *)
(* variable, a record with the contract's state variables as fields.  One  *)
(* step is one transaction: it runs to its end or reverts, and a revert    *)
(* leaves the storage as it was.  receipt tells how the transaction of the *)
(* step just taken ended.  monitor is the BaseGasMonitor instance.         *)
(***************************************************************************)
EXTENDS Integers, Sequences, FiniteSets, TLC

VARIABLES options, gasHistory, call, tasks, drafts, stats,
          utils, wallet, pool, governance, monitor, receipt

\* The state of the BaseGasOptimizer engine and of its caller.
engineVars == <<options, gasHistory, call, tasks, drafts, stats>>

\* The storage of the deployed contracts, the BaseGasMonitor instance, and
\* the outcome of the contract transaction just mined.
chainVars == <<utils, wallet, pool, governance, monitor, receipt>>

vars == <<options, gasHistory, call, tasks, drafts, stats,
          utils, wallet, pool, governance, monitor, receipt>>

\* ---------------------------------------------------------------- bounds
\* Longest array handed to batchTransactions.
MaxTxs == 3
\* The caller starts no further estimation once the history is this long.
MaxHistory == 3

\* The longest gasHistory explored where getGasStats is studied: one record
\* more than its window.
MaxStatsHistory == 11

\* The most ether, in whole units, BaseContractUtils is sent in all.
MaxBalance == 2

\* The most transactions submitted to the wallet.
MaxTransactions == 2

\* The most ether, in whole units, staked in the pool at one time.
MaxStaked == 3

\* The most proposals created in BaseGovernance.
MaxProposals == 2

\* The most samples the monitor fetches, and the most ticks of it that
\* await the provider at one time.
MaxSamples == 102
MaxOverlap == 2

\* ------------------------------------------------------- values and inputs
\* An options key the caller left out, and one it passed as undefined.
Absent == -1
Undefined == -2
\* "No value yet" in a numeric field of a task or of the call.
NoVal == -1

\* ethers.utils.parseUnits('20', 'gwei'), in gwei.
DefaultMaxGasPrice == 20
\* 1.1, in thousandths.
DefaultGasBuffer == 1100
DefaultBatchSize == 10

MaxGasPriceInputs == {Absent, Undefined, 0, 11, 25}
GasBufferInputs == {Absent, Undefined, 0, 500, 1005, 1150}
BatchSizeInputs == {Absent, Undefined, 0, 1, 2}

\* The draft transactions the caller owns, and what the provider's gas
\* simulation answers for each when it succeeds.
Txs == {"a", "b"}
GasOf(tx) == IF tx = "a" THEN 21000 ELSE 199

\* provider.getGasPrice() answers, in gwei.
Prices == {10, 30}
\* provider.getBlock('latest') answers: gasUsed and gasLimit.
Blocks == {[gasUsed |-> 2, gasLimit |-> 10], [gasUsed |-> 5, gasLimit |-> 10],
           [gasUsed |-> 9, gasLimit |-> 10], [gasUsed |-> 10, gasLimit |-> 10],
           [gasUsed |-> 5, gasLimit |-> 0]}
\* What a task remembers of a block fetch that was rejected.
NoBlock == [gasUsed |-> NoVal, gasLimit |-> NoVal]
\* Errors the provider rejects with.
Errors == {"E_NETWORK", "E_REVERT"}
\* The error BigNumber.from throws on undefined or NaN.
ArgError == "E_INVALID_ARGUMENT"

Min(a, b) == IF a <= b THEN a ELSE b

\* ------------------------------------------------------------ constructor
\* `a || b` on an options value: undefined (key absent or undefined) and 0
\* are falsy.
OrDefault(v, d) == IF v \in {Absent, Undefined, 0} THEN d ELSE v

\* { key: options.key || default, ...options }: the spread copies every key
\* the caller's object has, whatever its value, over the defaulted one.
Spread(v, defaulted) == IF v = Absent THEN defaulted ELSE v

Constructor(o) ==
  [maxGasPrice |-> Spread(o.maxGasPrice, OrDefault(o.maxGasPrice, DefaultMaxGasPrice)),
   gasBuffer   |-> Spread(o.gasBuffer, OrDefault(o.gasBuffer, DefaultGasBuffer)),
   batchSize   |-> Spread(o.batchSize, OrDefault(o.batchSize, DefaultBatchSize))]

\* ------------------------------------------------- getNetworkCongestion
\* A division that answers Infinity for a zero divisor, as that of two
\* JavaScript numbers does: the level is above every threshold.
CongestionOfPlainNumbers(blk) ==
  IF blk = NoBlock THEN 5
  ELSE IF blk.gasLimit = 0 THEN 10
  ELSE (blk.gasUsed \div blk.gasLimit) * 10

\* latestBlock.gasUsed.div(latestBlock.gasLimit) is BigNumber division: it
\* truncates to an integer, and throws on a zero divisor.  parseFloat of the
\* integer's decimal string is that integer.  A rejected getBlock and a
\* thrown division both end in the catch, which returns 0.5.  In tenths.
getNetworkCongestion(blk) ==
  IF blk = NoBlock \/ blk.gasLimit = 0
  THEN 5
  ELSE (blk.gasUsed \div blk.gasLimit) * 10

\* ---------------------------------------------------- getOptimalGasPrice
\* A high tier that a level of exactly 1.0 does not reach.
AdjustedAboveOneOnly(gasPrice, networkCongestion) ==
  IF networkCongestion > 10 THEN (gasPrice * 120) \div 100
  ELSE IF networkCongestion < 3 THEN (gasPrice * 90) \div 100
  ELSE gasPrice

\* Lines 32-37: the tier adjustment of the fetched price.
AdjustedGasPrice(gasPrice, networkCongestion) ==
  IF networkCongestion > 8 THEN (gasPrice * 120) \div 100
  ELSE IF networkCongestion < 3 THEN (gasPrice * 90) \div 100
  ELSE gasPrice

\* Lines 40-42: adjustedGasPrice.gt(maxGasPrice) ? maxGasPrice : adjusted.
CapGasPrice(adjusted, maxGasPrice) ==
  IF adjusted > maxGasPrice THEN maxGasPrice ELSE adjusted

\* gt(undefined) throws inside the try block.
CapThrows(maxGasPrice) == maxGasPrice = Undefined

\* ------------------------------------------------- estimateGasWithBuffer
\* gasBuffer values g for which the double g * 100 falls just below the
\* integer it stands for (1.15 * 100 is 114.99999999999999).
RoundsBelow == {1130, 1140, 1150, 1160}

\* Math.floor(this.options.gasBuffer * 100), gasBuffer in thousandths.
FloorTimes100(gasBuffer) ==
  IF gasBuffer \in RoundsBelow THEN (gasBuffer \div 10) - 1 ELSE gasBuffer \div 10

\* gasEstimate.mul(Math.floor(gasBuffer * 100)).div(100)
BufferedGas(gasEstimate, gasBuffer) ==
  (gasEstimate * FloorTimes100(gasBuffer)) \div 100

\* Math.floor(undefined * 100) is NaN, and mul(NaN) throws.
BufferThrows(gasBuffer) == gasBuffer = Undefined

\* The record pushed on gasHistory (its timestamp is not modelled: no
\* operation reads it).
HistoryRecord(gasEstimate, gasBuffer) ==
  [estimated |-> gasEstimate, buffered |-> BufferedGas(gasEstimate, gasBuffer)]

\* A log that keeps its two latest records only.
PushEvictingOldest(history, record) ==
  IF Len(history) >= 2 THEN Append(Tail(history), record) ELSE Append(history, record)

\* this.gasHistory.push(record), line 59.
Push(history, record) == Append(history, record)

\* ----------------------------------------------------- batchTransactions
\* A slice that takes one element too many.
SliceOneMore(transactions, i, j) ==
  SubSeq(transactions, i + 1, Min(j + 1, Len(transactions)))

\* transactions.slice(i, i + batchSize), i counted from 0.
Slice(transactions, i, j) == SubSeq(transactions, i + 1, Min(j, Len(transactions)))

\* The loop of lines 78-81 from index i on, for a batchSize >= 1.
RECURSIVE BatchesFrom(_, _, _)
BatchesFrom(transactions, i, batchSize) ==
  IF i < Len(transactions)
  THEN <<Slice(transactions, i, i + batchSize)>>
         \o BatchesFrom(transactions, i + batchSize, batchSize)
  ELSE <<>>

\* With batchSize undefined, i + undefined is NaN: the first slice(0, NaN) is
\* empty and the loop ends at once (NaN < length is false).
Batches(transactions, batchSize) ==
  IF batchSize = Undefined
  THEN IF Len(transactions) > 0 THEN << <<>> >> ELSE <<>>
  ELSE BatchesFrom(transactions, 0, batchSize)

\* With batchSize 0 and a non-empty array, i never advances: the loop pushes
\* empty batches for ever and the call never returns.
BatchLoopDiverges(transactions, batchSize) ==
  batchSize = 0 /\ Len(transactions) > 0

\* ------------------------------------------------------------------ tasks
\* One task is one run of an async body that awaits the provider: a call of
\* getOptimalGasPrice, of estimateGasWithBuffer, or the arrow function of
\* batchTransactions (lines 85-94), which does the one and then the other.
\* pc is the await the task is suspended at.
NewTask(tx) ==
  [tx |-> tx, pc |-> "idle", base |-> NoVal, blk |-> NoBlock, price |-> NoVal,
   gasLimit |-> NoVal, nEstimate |-> 0, err |-> "none"]

\* The awaits at which a provider call is in flight.
AwaitingRpc == {"getGasPrice", "getBlock", "fallback", "estimateGas"}

InFlight(ts) == {i \in DOMAIN ts : ts[i].pc \in AwaitingRpc}

\* The provider method an await is waiting on: provider.getGasPrice (lines
\* 28 and 45), provider.getBlock('latest') (line 109), provider.estimateGas
\* (line 56).  The class calls no other method of the provider.
ProviderMethod(pc) == IF pc = "fallback" THEN "getGasPrice" ELSE pc

\* provider.estimateGas(transaction) is called: line 56.
IssueEstimateGas(t) ==
  [t EXCEPT !.pc = "estimateGas", !.nEstimate = t.nEstimate + 1]

\* getOptimalGasPrice has returned `price`.  Called on its own, the task
\* ends here and keeps what it fetched (base, blk) as the record of the call.
\* Awaited by line 86 or line 124, its locals are gone and the body goes on
\* to estimateGasWithBuffer.
PriceReturned(t, price, op) ==
  IF op = "getOptimalGasPrice"
  THEN [t EXCEPT !.price = price, !.pc = "done"]
  ELSE IssueEstimateGas([t EXCEPT !.price = price, !.base = NoVal, !.blk = NoBlock])

\* The task's body has thrown `error`: nothing of it is left but the error.
Thrown(t, error) ==
  [NewTask(t.tx) EXCEPT !.pc = "failed", !.err = error, !.nEstimate = t.nEstimate]

\* Lines 29-46 once getNetworkCongestion has its block (or NoBlock).
AfterCongestion(t, blk, op, maxGasPrice) ==
  LET seen == [t EXCEPT !.blk = blk]
      adjusted == AdjustedGasPrice(t.base, getNetworkCongestion(blk))
  IN IF CapThrows(maxGasPrice)
     THEN [seen EXCEPT !.pc = "fallback"]
     ELSE PriceReturned(seen, CapGasPrice(adjusted, maxGasPrice), op)

\* A catch that tries the estimation once more instead of rethrowing.
EstimateCatchRetry(t, error) == IssueEstimateGas(t)

\* Lines 66-69: the catch of estimateGasWithBuffer logs and rethrows.
EstimateCatch(t, error) == Thrown(t, error)

\* Lines 57-65 once provider.estimateGas has answered gasEstimate.
AfterEstimate(t, gasEstimate, gasBuffer) ==
  IF BufferThrows(gasBuffer)
  THEN EstimateCatch(t, ArgError)
  ELSE [t EXCEPT !.pc = "done", !.gasLimit = BufferedGas(gasEstimate, gasBuffer)]

\* --------------------------------------------------------------- drafts
\* The gas fields of a draft transaction object; its to, value and data are
\* stood for by its name.  A field the caller did not set is Absent.
PlainDraft ==
  [gasPrice |-> Absent, gasLimit |-> Absent, type |-> Absent,
   maxFeePerGas |-> Absent, maxPriorityFeePerGas |-> Absent]

\* A draft on which the caller has set every gas field itself.
PrefilledDraft ==
  [gasPrice |-> 99, gasLimit |-> 99, type |-> 0,
   maxFeePerGas |-> 99, maxPriorityFeePerGas |-> 99]

\* The annotation written into the caller's own object.
DraftsAnnotatedInPlace(d, t) ==
  IF t.pc = "done" /\ t.tx \in DOMAIN d
  THEN [d EXCEPT ![t.tx].gasPrice = t.price, ![t.tx].gasLimit = t.gasLimit]
  ELSE d

\* What a step of task t does to the caller's objects: nothing.  The
\* transaction is only passed to provider.estimateGas (line 56) and spread
\* into a new object literal (lines 89-93, 127-134); slice (line 80) copies
\* the array.
DraftsWritten(d, t) == d

\* getGasStats() has not just returned.
NoStats ==
  [kind |-> "none", totalTransactions |-> NoVal, recentAvgEstimated |-> NoVal,
   recentAvgBuffered |-> NoVal, bufferEfficiency |-> NoVal]

\* ------------------------------------------------------------ getGasStats
\* The window of line 146.
StatsWindow == 10

\* parseInt of the decimal string a record holds (lines 148, 150).  The
\* strings come from BigNumber.toString(); for the gas amounts explored,
\* all far below 2^53, the number read back is the number written.
RECURSIVE SumOf(_, _, _)
SumOf(entries, field, k) ==
  IF k = 0 THEN 0 ELSE SumOf(entries, field, k - 1) + entries[k][field]

\* A window that is the whole history.
RecentAll(history) == history

\* this.gasHistory.slice(-10), line 146.
Recent(history) ==
  SubSeq(history, Len(history) - Min(Len(history), StatsWindow) + 1, Len(history))

\* Lines 146-157 for a history that is not empty.  Math.floor of the
\* quotient of two non-negative integers is their integer quotient;
\* bufferEfficiency, a string of a percentage with two decimals, is written
\* in hundredths of a percent, and is NoVal where the code prints NaN%.
StatsOf(history) ==
  LET recent == Recent(history)
      sumEstimated == SumOf(recent, "estimated", Len(recent))
      sumBuffered == SumOf(recent, "buffered", Len(recent))
  IN [kind |-> "stats",
      totalTransactions |-> Len(history),
      recentAvgEstimated |-> sumEstimated \div Len(recent),
      recentAvgBuffered |-> sumBuffered \div Len(recent),
      bufferEfficiency |->
        IF sumEstimated = 0 THEN NoVal
        ELSE ((sumBuffered - sumEstimated) * 20000 + sumEstimated) \div (2 * sumEstimated)]

\* { message: 'No gas history available' }, line 143.
NoHistoryMessage == [NoStats EXCEPT !.kind = "message"]

\* The statistics computed without looking at the length first: the
\* averages of no record at all.
getGasStatsUnguarded(history) ==
  IF Len(history) = 0
  THEN [NoStats EXCEPT !.kind = "stats", !.totalTransactions = 0]
  ELSE StatsOf(history)

\* Lines 141-158.
getGasStats(history) ==
  IF Len(history) = 0 THEN NoHistoryMessage ELSE StatsOf(history)

\* ---------------------------------------------------------------- the call
\* The caller's current asynchronous call and how it settled.  error and
\* errorIndex are what a rejection tells the caller: the error thrown, and
\* the index of a transaction within its batch if the rejection names one.
NoCall ==
  [op |-> "none", status |-> "idle", input |-> <<>>, batches |-> <<>>,
   group |-> 0, value |-> NoVal, results |-> <<>>, error |-> "none",
   errorIndex |-> NoVal]

\* What the call rejects with when task t has thrown: `throw error` (line
\* 68) rethrows the provider's error object as it is, and neither line 96
\* nor the arrow function of line 85 catches it to add anything.
Rejection(t) == [error |-> t.err, index |-> NoVal]

\* { ...tx, gasPrice, gasLimit }: lines 89-93.
Annotated(t) == [tx |-> t.tx, gasPrice |-> t.price, gasLimit |-> t.gasLimit]

\* The fixed tip of line 133, parseUnits('2', 'gwei'), in gwei.
DefaultPriorityFee == 2

\* The object literal with the spread written last: what the caller has set
\* on its draft survives.
OptimizedCallSpreadLast(tx, contractCall, gasPrice, gasLimit) ==
  LET keep(own, stamped) == IF own = Absent THEN stamped ELSE own
  IN [tx |-> tx,
      gasPrice |-> keep(contractCall.gasPrice, gasPrice),
      gasLimit |-> keep(contractCall.gasLimit, gasLimit),
      type |-> keep(contractCall.type, 2),
      maxFeePerGas |-> keep(contractCall.maxFeePerGas, gasPrice),
      maxPriorityFeePerGas |-> keep(contractCall.maxPriorityFeePerGas, DefaultPriorityFee)]

\* Lines 127-134: { ...contractCall, gasPrice, gasLimit, type: 2,
\* maxFeePerGas: gasPrice, maxPriorityFeePerGas }.  The keys written after
\* the spread replace whatever contractCall carries under the same name.
OptimizedCall(tx, contractCall, gasPrice, gasLimit) ==
  [tx |-> tx, gasPrice |-> gasPrice, gasLimit |-> gasLimit, type |-> 2,
   maxFeePerGas |-> gasPrice, maxPriorityFeePerGas |-> DefaultPriorityFee]

RECURSIVE SumLen(_, _)
SumLen(batches, k) == IF k = 0 THEN 0 ELSE SumLen(batches, k - 1) + Len(batches[k])

\* The transactions of batches 1..k, one after another.
RECURSIVE Flatten(_, _)
Flatten(batches, k) == IF k = 0 THEN <<>> ELSE Flatten(batches, k - 1) \o batches[k]

\* The tasks of batch k, as indices into the flat task sequence.
GroupLo(batches, k) == SumLen(batches, k - 1) + 1
GroupHi(batches, k) == SumLen(batches, k)
Group(batches, k) == GroupLo(batches, k) .. GroupHi(batches, k)

\* The values of the batch collected last task first.
BatchResultsReversed(ts, lo, hi) ==
  [j \in 1 .. (hi - lo + 1) |-> Annotated(ts[hi - j + 1])]

\* What Promise.all(batchPromises) resolves with: the tasks' values in the
\* order of the batch.
BatchResults(ts, lo, hi) == [j \in 1 .. (hi - lo + 1) |-> Annotated(ts[lo + j - 1])]

\* Every task not yet started is started, whatever batch it belongs to.
StartEveryTask(ts, lo, hi) ==
  [j \in DOMAIN ts |-> IF ts[j].pc = "idle" THEN [ts[j] EXCEPT !.pc = "getGasPrice"] ELSE ts[j]]

\* batch.map(async (tx) => ...): every body of the batch runs up to its first
\* await, the getGasPrice of line 28.
StartGroup(ts, lo, hi) ==
  [j \in DOMAIN ts |-> IF j \in lo .. hi THEN [ts[j] EXCEPT !.pc = "getGasPrice"] ELSE ts[j]]

\* The for loop of lines 84-98 entering batch k, results collected so far
\* in c.results.
RECURSIVE EnterGroup(_, _, _)
EnterGroup(ts, c, k) ==
  IF k > Len(c.batches)
  THEN [tasks |-> ts, call |-> [c EXCEPT !.status = "resolved"]]
  ELSE IF Len(c.batches[k]) = 0
  THEN EnterGroup(ts, c, k + 1)
  ELSE [tasks |-> StartGroup(ts, GroupLo(c.batches, k), GroupHi(c.batches, k)),
        call |-> [c EXCEPT !.group = k]]

\* A join that waits on, whatever its tasks rejected with.
RejectsNever(ts, i) == FALSE

\* Promise.all (line 96) and a plain await (lines 86-87, 124-125) reject as
\* soon as the task they wait for rejects.
Rejects(ts, i) == ts[i].pc = "failed"

\* Task i has just stepped to ts[i]: what the call that awaits it does.
\* A call that has settled awaits nothing: its remaining tasks run on alone.
Settle(ts, c, i) ==
  IF c.status # "running" THEN [tasks |-> ts, call |-> c]
  ELSE IF Rejects(ts, i)
  THEN [tasks |-> ts,
        call |-> [c EXCEPT !.status = "rejected", !.error = Rejection(ts[i]).error,
                           !.errorIndex = Rejection(ts[i]).index]]
  ELSE IF c.op = "getOptimalGasPrice" /\ ts[i].pc = "done"
  THEN [tasks |-> ts, call |-> [c EXCEPT !.status = "resolved", !.value = ts[i].price]]
  ELSE IF c.op = "estimateGasWithBuffer" /\ ts[i].pc = "done"
  THEN [tasks |-> ts, call |-> [c EXCEPT !.status = "resolved", !.value = ts[i].gasLimit]]
  ELSE IF c.op = "optimizeContractCall" /\ ts[i].pc = "done"
  THEN [tasks |-> ts,
        call |-> [c EXCEPT !.status = "resolved",
                    !.results = <<OptimizedCall(ts[i].tx, drafts[ts[i].tx],
                                                ts[i].price, ts[i].gasLimit)>>]]
  ELSE IF c.op = "batchTransactions"
          /\ \A j \in Group(c.batches, c.group) : ts[j].pc = "done"
  THEN EnterGroup(ts,
                  [c EXCEPT !.results = c.results \o
                      BatchResults(ts, GroupLo(c.batches, c.group),
                                   GroupHi(c.batches, c.group))],
                  c.group + 1)
  ELSE [tasks |-> ts, call |-> c]

\* ====================================================================
\* The contracts: addresses, receipts, constructors
\* ====================================================================
\* address(0), and the accounts that send transactions.  msg.sender is never
\* address(0).
ZeroAddress == 0
Accounts == {1, 2, 3}
Address == {ZeroAddress} \cup Accounts

\* No ether left the contract in the transaction.
NoPayment == [to |-> ZeroAddress, amount |-> 0]

\* No contract transaction has been mined in the step just taken.
NoReceipt ==
  [fn |-> "none", sender |-> ZeroAddress, status |-> "none", reason |-> "",
   paid |-> NoPayment]

\* The transaction ran to its end, sending `paid` on its way.
Success(fn, sender, paid) ==
  [fn |-> fn, sender |-> sender, status |-> "success", reason |-> "", paid |-> paid]

\* A require failed, or a transfer did: everything is rolled back.
Reverted(fn, sender, reason) ==
  [fn |-> fn, sender |-> sender, status |-> "reverted", reason |-> reason,
   paid |-> NoPayment]

\* --------------------------------------------------- BaseContractUtils
\* The strings callers pass as _basename.
Names == {"", "alice", "bob"}

\* A BasenameInfo no one has written: the default value of the mapping
\* (registeredAt, a block timestamp no function reads, is left out).
NoBasename == [basename |-> "", owner |-> ZeroAddress, isActive |-> FALSE]

\* constructor() {} after Ownable's constructor, which makes the deployer the
\* owner (OpenZeppelin 4.x, the version that has security/ReentrancyGuard).
UtilsConstructor(deployer) ==
  [owner |-> deployer, balance |-> 0,
   basenames |-> [a \in Accounts |-> NoBasename],
   basenameToAddress |-> [n \in Names |-> ZeroAddress]]

\* --------------------------------------------------- BaseMultiSigWallet
\* A loop that takes every address it is given.
OwnerRejectedNever(isOwner, owner) == ""

\* The body of the constructor's loop for _owners[i], on the isOwner mapping
\* built so far: the reason it reverts with, or "" when it goes on.
OwnerRejected(isOwner, owner) ==
  IF owner = ZeroAddress THEN "Invalid owner"
  ELSE IF isOwner[owner] THEN "Owner not unique"
  ELSE ""

\* Lines 52-59 from index i on; w is the storage written so far.
RECURSIVE OwnersLoop(_, _, _)
OwnersLoop(_owners, i, w) ==
  IF i > Len(_owners) THEN [status |-> "success", reason |-> "", state |-> w]
  ELSE IF OwnerRejected(w.isOwner, _owners[i]) # ""
  THEN [status |-> "reverted", reason |-> OwnerRejected(w.isOwner, _owners[i]), state |-> w]
  ELSE OwnersLoop(_owners, i + 1,
                  [w EXCEPT !.isOwner[_owners[i]] = TRUE,
                            !.owners = Append(w.owners, _owners[i])])

\* The storage of a wallet under construction.
WalletBlank ==
  [owners |-> <<>>, isOwner |-> [a \in Address |-> FALSE],
   numConfirmationsRequired |-> 0, transactions |-> <<>>]

\* Lines 49-50: is the threshold one the constructor accepts for this many
\* owners?
ThresholdAccepted(n, required) == required > 0 /\ required <= n

\* constructor(_owners, _numConfirmationsRequired), lines 48-62.
WalletConstructor(_owners, _numConfirmationsRequired) ==
  IF Len(_owners) = 0
  THEN [status |-> "reverted", reason |-> "Owners required", state |-> WalletBlank]
  ELSE IF ~ThresholdAccepted(Len(_owners), _numConfirmationsRequired)
  THEN [status |-> "reverted", reason |-> "Invalid confirmations", state |-> WalletBlank]
  ELSE LET built == OwnersLoop(_owners, 1, WalletBlank)
       IN IF built.status = "reverted" THEN built
          ELSE [built EXCEPT !.state.numConfirmationsRequired = _numConfirmationsRequired]

\* ------------------------------------------------------ BaseStakingPool
\* The storage after deployment (rewards and rewardRate, which no function
\* reads or writes, are left out).
PoolConstructor == [stakes |-> [a \in Accounts |-> 0], totalStaked |-> 0]

\* ------------------------------------------------------- BaseGovernance
\* The proposal ids voters pass: vote() takes any uint256.
ProposalIds == {0, 1}

GovernanceConstructor ==
  [votesFor |-> [p \in ProposalIds |-> 0],
   votesAgainst |-> [p \in ProposalIds |-> 0],
   hasVoted |-> [a \in Accounts |-> [p \in ProposalIds |-> FALSE]],
   proposalCount |-> 0]

\* ------------------------------------------------------- BaseGasMonitor
\* new BaseGasMonitor(): an empty history.  pending is the number of runs of
\* `monitor` awaiting the provider, timer tells whether setInterval (line
\* 218) has been reached, clock is the time new Date() reads, counted in
\* samples arrived.
MonitorConstructor ==
  [gasHistory |-> <<>>, pending |-> 0, timer |-> FALSE, clock |-> 0]

\* The contracts deployed and the monitor built, none of them used yet: the
\* wallet is one of owners 1 and 2 who both must confirm.
ChainDeployed ==
  /\ utils = UtilsConstructor(1)
  /\ wallet = WalletConstructor(<<1, 2>>, 2).state
  /\ pool = PoolConstructor
  /\ governance = GovernanceConstructor
  /\ monitor = MonitorConstructor
  /\ receipt = NoReceipt

\* The engine built with no options and not used.
EngineIdle ==
  /\ options = Constructor([maxGasPrice |-> Absent, gasBuffer |-> Absent,
                            batchSize |-> Absent])
  /\ gasHistory = <<>>
  /\ call = NoCall
  /\ tasks = <<>>
  /\ drafts = [tx \in Txs |-> PlainDraft]
  /\ stats = NoStats

\* ------------------------------------------------------------------- Init
\* new BaseGasOptimizer(provider, o) for an options object o of `inputs`.
Constructed(inputs) ==
  /\ \E o \in inputs : options = Constructor(o)
  /\ gasHistory = <<>>
  /\ call = NoCall
  /\ tasks = <<>>
  /\ drafts = [tx \in Txs |-> PlainDraft]
  /\ stats = NoStats
  /\ ChainDeployed

NoOptions == [maxGasPrice |-> Absent, gasBuffer |-> Absent, batchSize |-> Absent]

\* The engine as a whole is explored for every batchSize; the two other keys
\* have a specification of their own below.
Init == Constructed({[NoOptions EXCEPT !.batchSize = b] : b \in BatchSizeInputs})

\* ---------------------------------------------------------- caller actions
\* The caller starts its next asynchronous call once the previous one has
\* settled and none of its tasks is still running.
CallerReady ==
  /\ call.status \in {"idle", "resolved", "rejected"}
  /\ InFlight(tasks) = {}

\* The arrays the caller hands to batchTransactions: a, b, a, ... of every
\* length up to MaxTxs.
InputArrays == {[j \in 1 .. k |-> IF j % 2 = 1 THEN "a" ELSE "b"] : k \in 0 .. MaxTxs}

CallGetOptimalGasPrice ==
  /\ CallerReady
  /\ tasks' = <<[NewTask("none") EXCEPT !.pc = "getGasPrice"]>>
  /\ call' = [NoCall EXCEPT !.op = "getOptimalGasPrice", !.status = "running"]
  /\ stats' = NoStats
  /\ UNCHANGED chainVars
  /\ UNCHANGED <<options, gasHistory, drafts>>

\* estimateGasWithBuffer(tx) called while the history holds fewer than cap
\* records: the body runs up to the estimateGas of line 56.
EstimateCall(tx, cap) ==
  /\ CallerReady
  /\ Len(gasHistory) < cap
  /\ tasks' = <<IssueEstimateGas(NewTask(tx))>>
  /\ call' = [NoCall EXCEPT !.op = "estimateGasWithBuffer", !.status = "running",
                            !.input = <<tx>>]
  /\ stats' = NoStats
  /\ UNCHANGED chainVars
  /\ UNCHANGED <<options, gasHistory, drafts>>

CallEstimateGasWithBuffer(tx) == EstimateCall(tx, MaxHistory)

\* The same call where the history may grow past the window of getGasStats.
CallEstimateForStats(tx) == EstimateCall(tx, MaxStatsHistory)

CallBatchTransactions(transactions) ==
  /\ CallerReady
  /\ Len(gasHistory) + Len(transactions) <= MaxHistory
  /\ LET c == [NoCall EXCEPT !.op = "batchTransactions", !.status = "running",
                             !.input = transactions]
     IN IF BatchLoopDiverges(transactions, options.batchSize)
        THEN /\ call' = [c EXCEPT !.status = "hung"]
             /\ tasks' = <<>>
        ELSE LET bs == Batches(transactions, options.batchSize)
                 txs == Flatten(bs, Len(bs))
                 ts == [j \in 1 .. Len(txs) |-> NewTask(txs[j])]
                 go == EnterGroup(ts, [c EXCEPT !.batches = bs], 1)
             IN /\ call' = go.call
                /\ tasks' = go.tasks
  /\ stats' = NoStats
  /\ UNCHANGED chainVars
  /\ UNCHANGED <<options, gasHistory, drafts>>

\* Lines 123-124: the body runs up to the getGasPrice of line 28.
CallOptimizeContractCall(tx) ==
  /\ CallerReady
  /\ Len(gasHistory) < MaxHistory
  /\ tasks' = <<[NewTask(tx) EXCEPT !.pc = "getGasPrice"]>>
  /\ call' = [NoCall EXCEPT !.op = "optimizeContractCall", !.status = "running",
                            !.input = <<tx>>]
  /\ stats' = NoStats
  /\ UNCHANGED chainVars
  /\ UNCHANGED <<options, gasHistory, drafts>>

\* A clearing that keeps the latest record.
ClearHistoryKeepsLast ==
  /\ gasHistory # <<>>
  /\ gasHistory' = <<gasHistory[Len(gasHistory)]>>
  /\ stats' = NoStats
  /\ UNCHANGED chainVars
  /\ UNCHANGED <<options, call, tasks, drafts>>

ClearHistory ==
  /\ gasHistory # <<>>
  /\ gasHistory' = <<>>
  /\ stats' = NoStats
  /\ UNCHANGED chainVars
  /\ UNCHANGED <<options, call, tasks, drafts>>

\* getGasStats() is synchronous: it runs to its return in one step, between
\* any two steps of the asynchronous calls.
GetGasStats ==
  /\ stats' = getGasStats(gasHistory)
  /\ UNCHANGED <<options, gasHistory, call, tasks, drafts>>
  /\ UNCHANGED chainVars

\* -------------------------------------------------------- provider answers
Resume(i, t) ==
  LET go == Settle([tasks EXCEPT ![i] = t], call, i)
  IN /\ tasks' = go.tasks
     /\ call' = go.call
     /\ drafts' = DraftsWritten(drafts, t)

GetGasPriceOk(i, p) ==
  /\ tasks[i].pc = "getGasPrice"
  /\ Resume(i, [tasks[i] EXCEPT !.base = p, !.pc = "getBlock"])
  /\ stats' = NoStats
  /\ UNCHANGED chainVars
  /\ UNCHANGED <<options, gasHistory>>

GetGasPriceFail(i) ==
  /\ tasks[i].pc = "getGasPrice"
  /\ Resume(i, [tasks[i] EXCEPT !.pc = "fallback"])
  /\ stats' = NoStats
  /\ UNCHANGED chainVars
  /\ UNCHANGED <<options, gasHistory>>

GetBlockOk(i, blk) ==
  /\ tasks[i].pc = "getBlock"
  /\ Resume(i, AfterCongestion(tasks[i], blk, call.op, options.maxGasPrice))
  /\ stats' = NoStats
  /\ UNCHANGED chainVars
  /\ UNCHANGED <<options, gasHistory>>

GetBlockFail(i) ==
  /\ tasks[i].pc = "getBlock"
  /\ Resume(i, AfterCongestion(tasks[i], NoBlock, call.op, options.maxGasPrice))
  /\ stats' = NoStats
  /\ UNCHANGED chainVars
  /\ UNCHANGED <<options, gasHistory>>

FallbackOk(i, p) ==
  /\ tasks[i].pc = "fallback"
  /\ Resume(i, PriceReturned(tasks[i], p, call.op))
  /\ stats' = NoStats
  /\ UNCHANGED chainVars
  /\ UNCHANGED <<options, gasHistory>>

FallbackFail(i, e) ==
  /\ tasks[i].pc = "fallback"
  /\ Resume(i, Thrown(tasks[i], e))
  /\ stats' = NoStats
  /\ UNCHANGED chainVars
  /\ UNCHANGED <<options, gasHistory>>

EstimateGasOk(i) ==
  /\ tasks[i].pc = "estimateGas"
  /\ LET t == AfterEstimate(tasks[i], GasOf(tasks[i].tx), options.gasBuffer)
     IN /\ Resume(i, t)
        /\ gasHistory' =
             IF t.pc = "done"
             THEN Push(gasHistory, HistoryRecord(GasOf(tasks[i].tx), options.gasBuffer))
             ELSE gasHistory
  /\ stats' = NoStats
  /\ UNCHANGED chainVars
  /\ UNCHANGED options

EstimateGasFail(i, e) ==
  /\ tasks[i].pc = "estimateGas"
  /\ Resume(i, EstimateCatch(tasks[i], e))
  /\ stats' = NoStats
  /\ UNCHANGED chainVars
  /\ UNCHANGED <<options, gasHistory>>

\* The provider answers one of the getGasPrice or getBlock calls in flight.
PriceAnswer ==
  \E i \in DOMAIN tasks :
    \/ \E p \in Prices : GetGasPriceOk(i, p)
    \/ GetGasPriceFail(i)
    \/ \E blk \in Blocks : GetBlockOk(i, blk)
    \/ GetBlockFail(i)
    \/ \E p \in Prices : FallbackOk(i, p)
    \/ \E e \in Errors : FallbackFail(i, e)

\* The provider answers one of the estimateGas calls in flight.
EstimateAnswer ==
  \E i \in DOMAIN tasks :
    \/ EstimateGasOk(i)
    \/ \E e \in Errors : EstimateGasFail(i, e)

Next ==
  \/ CallGetOptimalGasPrice
  \/ \E tx \in Txs : CallEstimateGasWithBuffer(tx)
  \/ \E transactions \in InputArrays : CallBatchTransactions(transactions)
  \/ \E tx \in Txs : CallOptimizeContractCall(tx)
  \/ ClearHistory
  \/ PriceAnswer
  \/ EstimateAnswer

Spec == Init /\ [][Next]_vars

\* The configuration: every options object the caller can construct the
\* engine with, and the operations that read one key each.
InitConfig ==
  Constructed({[maxGasPrice |-> m, gasBuffer |-> g, batchSize |-> b] :
                 m \in MaxGasPriceInputs, g \in GasBufferInputs, b \in BatchSizeInputs})

NextConfig ==
  \/ CallGetOptimalGasPrice
  \/ \E tx \in Txs : CallEstimateGasWithBuffer(tx)
  \/ PriceAnswer
  \/ EstimateAnswer
  \/ ClearHistory

SpecConfig == InitConfig /\ [][NextConfig]_vars

\* ====================================================================
\* BaseContractUtils
\* ====================================================================
\* The requires of registerBasename with the third one left out.
RegisterRejectedNameOnly(u, sender, _basename) ==
  IF _basename = "" THEN "Basename cannot be empty"
  ELSE IF u.basenameToAddress[_basename] # ZeroAddress THEN "Basename already taken"
  ELSE ""

\* Lines 52-54: the message of the first require that fails, "" if none.
RegisterRejected(u, sender, _basename) ==
  IF _basename = "" THEN "Basename cannot be empty"
  ELSE IF u.basenameToAddress[_basename] # ZeroAddress THEN "Basename already taken"
  ELSE IF u.basenames[sender].basename # "" THEN "Address already has basename"
  ELSE ""

\* Lines 56-63.
Registered(u, sender, _basename) ==
  [u EXCEPT !.basenames[sender] =
              [basename |-> _basename, owner |-> sender, isActive |-> TRUE],
            !.basenameToAddress[_basename] = sender]

RegisterBasename(sender, _basename) ==
  /\ IF RegisterRejected(utils, sender, _basename) # ""
     THEN /\ receipt' = Reverted("registerBasename", sender,
                                 RegisterRejected(utils, sender, _basename))
          /\ UNCHANGED utils
     ELSE /\ utils' = Registered(utils, sender, _basename)
          /\ receipt' = Success("registerBasename", sender, NoPayment)
  /\ UNCHANGED <<wallet, pool, governance, monitor>>
  /\ UNCHANGED engineVars

\* receive() external payable {}: line 145.
UtilsReceive(sender, value) ==
  /\ utils.balance + value <= MaxBalance
  /\ utils' = [utils EXCEPT !.balance = utils.balance + value]
  /\ receipt' = Success("receive", sender, NoPayment)
  /\ UNCHANGED <<wallet, pool, governance, monitor>>
  /\ UNCHANGED engineVars

\* A modifier that lets every caller through.
OnlyOwnerRejectedNever(u, sender) == ""

\* Ownable's onlyOwner (line 138): require(owner() == msg.sender).
OnlyOwnerRejected(u, sender) ==
  IF u.owner # sender THEN "Ownable: caller is not the owner" ELSE ""

\* emergencyWithdraw(), lines 138-140.  `accepted` tells whether the owner's
\* account takes the ether within the 2300 gas transfer() forwards; when it
\* does not, transfer reverts.
EmergencyWithdraw(sender, accepted) ==
  /\ IF OnlyOwnerRejected(utils, sender) # ""
     THEN /\ receipt' = Reverted("emergencyWithdraw", sender,
                                 OnlyOwnerRejected(utils, sender))
          /\ UNCHANGED utils
     ELSE IF ~accepted
     THEN /\ receipt' = Reverted("emergencyWithdraw", sender, "transfer failed")
          /\ UNCHANGED utils
     ELSE /\ utils' = [utils EXCEPT !.balance = 0]
          /\ receipt' = Success("emergencyWithdraw", sender,
                                [to |-> utils.owner, amount |-> utils.balance])
  /\ UNCHANGED <<wallet, pool, governance, monitor>>
  /\ UNCHANGED engineVars

\* Ownable.transferOwnership(newOwner), inherited (line 13).
TransferOwnership(sender, newOwner) ==
  /\ IF OnlyOwnerRejected(utils, sender) # ""
     THEN /\ receipt' = Reverted("transferOwnership", sender,
                                 OnlyOwnerRejected(utils, sender))
          /\ UNCHANGED utils
     ELSE IF newOwner = ZeroAddress
     THEN /\ receipt' = Reverted("transferOwnership", sender,
                                 "Ownable: new owner is the zero address")
          /\ UNCHANGED utils
     ELSE /\ utils' = [utils EXCEPT !.owner = newOwner]
          /\ receipt' = Success("transferOwnership", sender, NoPayment)
  /\ UNCHANGED <<wallet, pool, governance, monitor>>
  /\ UNCHANGED engineVars

\* Ownable.renounceOwnership(), inherited (line 13).
RenounceOwnership(sender) ==
  /\ IF OnlyOwnerRejected(utils, sender) # ""
     THEN /\ receipt' = Reverted("renounceOwnership", sender,
                                 OnlyOwnerRejected(utils, sender))
          /\ UNCHANGED utils
     ELSE /\ utils' = [utils EXCEPT !.owner = ZeroAddress]
          /\ receipt' = Success("renounceOwnership", sender, NoPayment)
  /\ UNCHANGED <<wallet, pool, governance, monitor>>
  /\ UNCHANGED engineVars

\* The contract deployed by any account; the other contracts stand by.
InitUtils ==
  /\ EngineIdle
  /\ \E deployer \in Accounts : utils = UtilsConstructor(deployer)
  /\ wallet = WalletConstructor(<<1, 2>>, 2).state
  /\ pool = PoolConstructor
  /\ governance = GovernanceConstructor
  /\ monitor = MonitorConstructor
  /\ receipt = NoReceipt

NextUtils ==
  \/ \E sender \in Accounts, _basename \in Names : RegisterBasename(sender, _basename)
  \/ \E sender \in Accounts, value \in 1 .. MaxBalance : UtilsReceive(sender, value)
  \/ \E sender \in Accounts, accepted \in BOOLEAN : EmergencyWithdraw(sender, accepted)
  \/ \E sender \in Accounts, newOwner \in Address : TransferOwnership(sender, newOwner)
  \/ \E sender \in Accounts : RenounceOwnership(sender)

SpecUtils == InitUtils /\ [][NextUtils]_vars

\* ====================================================================
\* BaseMultiSigWallet
\* ====================================================================
\* The arguments the wallet is deployed with: owner arrays that are empty,
\* good, repeating or holding address(0), and thresholds from 0 up.
OwnerArrays == {<<>>, <<1>>, <<1, 2>>, <<2, 3>>, <<1, 1>>, <<ZeroAddress, 1>>}
ThresholdInputs == {0, 1, 2, 3, 4}

\* The _txIndex values callers pass: the indices of the array and one past.
TxIndexes == 0 .. MaxTransactions

\* transactions[_txIndex]: Solidity counts from 0.
TxAt(w, _txIndex) == w.transactions[_txIndex + 1]

\* Lines 71-77: the Transaction pushed by submitTransaction (its data is not
\* modelled: only the outcome of the call it is sent with matters).
NewTransaction(_to, _value) ==
  [to |-> _to, value |-> _value, executed |-> FALSE, numConfirmations |-> 0,
   isConfirmed |-> [a \in Address |-> FALSE]]

\* The modifiers onlyOwner, txExists and notExecuted, in the order they are
\* written on lines 82 and 92: the message of the first that fails.
ModifiersRejected(w, sender, _txIndex) ==
  IF ~w.isOwner[sender] THEN "Not an owner"
  ELSE IF ~(_txIndex < Len(w.transactions)) THEN "Transaction does not exist"
  ELSE IF TxAt(w, _txIndex).executed THEN "Already executed"
  ELSE ""

\* confirmTransaction without the require of line 84.
ConfirmRejectedModifiersOnly(w, sender, _txIndex) ==
  ModifiersRejected(w, sender, _txIndex)

\* Lines 82-84: why confirmTransaction reverts, "" if it does not.
ConfirmRejected(w, sender, _txIndex) ==
  IF ModifiersRejected(w, sender, _txIndex) # ""
  THEN ModifiersRejected(w, sender, _txIndex)
  ELSE IF TxAt(w, _txIndex).isConfirmed[sender] THEN "Already confirmed"
  ELSE ""

\* executeTransaction without the notExecuted modifier.
ExecuteRejectedExecutedToo(w, sender, _txIndex) ==
  IF ~w.isOwner[sender] THEN "Not an owner"
  ELSE IF ~(_txIndex < Len(w.transactions)) THEN "Transaction does not exist"
  ELSE IF TxAt(w, _txIndex).numConfirmations < w.numConfirmationsRequired
  THEN "Not enough confirmations"
  ELSE ""

\* Lines 92-94: why executeTransaction reverts before it calls, "" if it
\* does not.  nonReentrant never fails here: a transaction is one step, and
\* no call of the wallet is open when the next one starts.
ExecuteRejected(w, sender, _txIndex) ==
  IF ModifiersRejected(w, sender, _txIndex) # ""
  THEN ModifiersRejected(w, sender, _txIndex)
  ELSE IF TxAt(w, _txIndex).numConfirmations < w.numConfirmationsRequired
  THEN "Not enough confirmations"
  ELSE ""

\* A failed call that is only reported: the flag written before it stays.
AfterFailedCallFlagKept(w, marked) == marked

\* Line 99: require(success) fails and the transaction reverts; w is the
\* storage before the transaction, marked the storage after line 96.
AfterFailedCall(w, marked) == w

SubmitTransaction(sender, _to, _value) ==
  /\ Len(wallet.transactions) < MaxTransactions
  /\ IF ~wallet.isOwner[sender]
     THEN /\ receipt' = Reverted("submitTransaction", sender, "Not an owner")
          /\ UNCHANGED wallet
     ELSE /\ wallet' = [wallet EXCEPT !.transactions =
                          Append(wallet.transactions, NewTransaction(_to, _value))]
          /\ receipt' = Success("submitTransaction", sender, NoPayment)
  /\ UNCHANGED <<utils, pool, governance, monitor>>
  /\ UNCHANGED engineVars

ConfirmTransaction(sender, _txIndex) ==
  /\ IF ConfirmRejected(wallet, sender, _txIndex) # ""
     THEN /\ receipt' = Reverted("confirmTransaction", sender,
                                 ConfirmRejected(wallet, sender, _txIndex))
          /\ UNCHANGED wallet
     ELSE /\ wallet' =
               [wallet EXCEPT
                  !.transactions[_txIndex + 1].isConfirmed[sender] = TRUE,
                  !.transactions[_txIndex + 1].numConfirmations =
                     TxAt(wallet, _txIndex).numConfirmations + 1]
          /\ receipt' = Success("confirmTransaction", sender, NoPayment)
  /\ UNCHANGED <<utils, pool, governance, monitor>>
  /\ UNCHANGED engineVars

\* executeTransaction(_txIndex), lines 92-102; `success` is what the call of
\* line 98 answers.
ExecuteTransaction(sender, _txIndex, success) ==
  /\ IF ExecuteRejected(wallet, sender, _txIndex) # ""
     THEN /\ receipt' = Reverted("executeTransaction", sender,
                                 ExecuteRejected(wallet, sender, _txIndex))
          /\ UNCHANGED wallet
     ELSE LET marked == [wallet EXCEPT !.transactions[_txIndex + 1].executed = TRUE]
          IN IF success
             THEN /\ wallet' = marked
                  /\ receipt' = Success("executeTransaction", sender,
                                        [to |-> TxAt(wallet, _txIndex).to,
                                         amount |-> TxAt(wallet, _txIndex).value])
             ELSE /\ wallet' = AfterFailedCall(wallet, marked)
                  /\ receipt' = Reverted("executeTransaction", sender, "Transaction failed")
  /\ UNCHANGED <<utils, pool, governance, monitor>>
  /\ UNCHANGED engineVars

\* Every wallet the constructor accepts; the other contracts stand by.
InitWallet ==
  /\ EngineIdle
  /\ utils = UtilsConstructor(1)
  /\ \E _owners \in OwnerArrays, required \in ThresholdInputs :
       /\ WalletConstructor(_owners, required).status = "success"
       /\ wallet = WalletConstructor(_owners, required).state
  /\ pool = PoolConstructor
  /\ governance = GovernanceConstructor
  /\ monitor = MonitorConstructor
  /\ receipt = NoReceipt

NextWallet ==
  \/ \E sender \in Accounts : SubmitTransaction(sender, 3, 1)
  \/ \E sender \in Accounts, _txIndex \in TxIndexes : ConfirmTransaction(sender, _txIndex)
  \/ \E sender \in Accounts, _txIndex \in TxIndexes, success \in BOOLEAN :
       ExecuteTransaction(sender, _txIndex, success)

SpecWallet == InitWallet /\ [][NextWallet]_vars

\* ====================================================================
\* BaseStakingPool
\* ====================================================================
\* The msg.value of stake() and the amounts asked of withdraw().
StakeValues == 0 .. MaxStaked
WithdrawAmounts == 0 .. MaxStaked

\* Line 21.
WithdrawRejected(p, sender, amount) ==
  IF p.stakes[sender] >= amount THEN "" ELSE "Insufficient stake"

\* A withdrawal that forgets the total.
WithdrawnStakeOnly(p, sender, amount) ==
  [p EXCEPT !.stakes[sender] = p.stakes[sender] - amount]

\* Lines 22-23.
Withdrawn(p, sender, amount) ==
  [p EXCEPT !.stakes[sender] = p.stakes[sender] - amount,
            !.totalStaked = p.totalStaked - amount]

\* stake(), lines 13-18.  The sums cannot overflow a uint256 within the
\* amounts explored.
Stake(sender, value) ==
  /\ pool.totalStaked + value <= MaxStaked
  /\ IF ~(value > 0)
     THEN /\ receipt' = Reverted("stake", sender, "Must stake positive amount")
          /\ UNCHANGED pool
     ELSE /\ pool' = [pool EXCEPT !.stakes[sender] = pool.stakes[sender] + value,
                                  !.totalStaked = pool.totalStaked + value]
          /\ receipt' = Success("stake", sender, NoPayment)
  /\ UNCHANGED <<utils, wallet, governance, monitor>>
  /\ UNCHANGED engineVars

\* withdraw(amount), lines 20-26.  A subtraction below zero panics and
\* reverts (Solidity 0.8); `accepted` tells whether the sender's account
\* takes the ether of line 24, whose failure reverts as well.
Withdraw(sender, amount, accepted) ==
  /\ IF WithdrawRejected(pool, sender, amount) # ""
     THEN /\ receipt' = Reverted("withdraw", sender,
                                 WithdrawRejected(pool, sender, amount))
          /\ UNCHANGED pool
     ELSE IF pool.stakes[sender] < amount \/ pool.totalStaked < amount
     THEN /\ receipt' = Reverted("withdraw", sender, "Panic(0x11)")
          /\ UNCHANGED pool
     ELSE IF ~accepted
     THEN /\ receipt' = Reverted("withdraw", sender, "transfer failed")
          /\ UNCHANGED pool
     ELSE /\ pool' = Withdrawn(pool, sender, amount)
          /\ receipt' = Success("withdraw", sender,
                                [to |-> sender, amount |-> amount])
  /\ UNCHANGED <<utils, wallet, governance, monitor>>
  /\ UNCHANGED engineVars

InitPool ==
  /\ EngineIdle
  /\ utils = UtilsConstructor(1)
  /\ wallet = WalletConstructor(<<1, 2>>, 2).state
  /\ pool = PoolConstructor
  /\ governance = GovernanceConstructor
  /\ monitor = MonitorConstructor
  /\ receipt = NoReceipt

NextPool ==
  \/ \E sender \in Accounts, value \in StakeValues : Stake(sender, value)
  \/ \E sender \in Accounts, amount \in WithdrawAmounts, accepted \in BOOLEAN :
       Withdraw(sender, amount, accepted)

SpecPool == InitPool /\ [][NextPool]_vars

\* ====================================================================
\* BaseGovernance
\* ====================================================================
\* A vote that is never turned down.
VoteRejectedNever(g, sender, proposalId) == ""

\* Line 14.
VoteRejected(g, sender, proposalId) ==
  IF g.hasVoted[sender][proposalId] THEN "Already voted" ELSE ""

\* Lines 15-21.
Voted(g, sender, proposalId, support) ==
  IF support
  THEN [g EXCEPT !.hasVoted[sender][proposalId] = TRUE,
                 !.votesFor[proposalId] = g.votesFor[proposalId] + 1]
  ELSE [g EXCEPT !.hasVoted[sender][proposalId] = TRUE,
                 !.votesAgainst[proposalId] = g.votesAgainst[proposalId] + 1]

\* vote(proposalId, support), lines 13-24: any id, created or not.
Vote(sender, proposalId, support) ==
  /\ IF VoteRejected(governance, sender, proposalId) # ""
     THEN /\ receipt' = Reverted("vote", sender,
                                 VoteRejected(governance, sender, proposalId))
          /\ UNCHANGED governance
     ELSE /\ governance' = Voted(governance, sender, proposalId, support)
          /\ receipt' = Success("vote", sender, NoPayment)
  /\ UNCHANGED <<utils, wallet, pool, monitor>>
  /\ UNCHANGED engineVars

\* createProposal(), lines 26-28.
CreateProposal(sender) ==
  /\ governance.proposalCount < MaxProposals
  /\ governance' = [governance EXCEPT !.proposalCount = governance.proposalCount + 1]
  /\ receipt' = Success("createProposal", sender, NoPayment)
  /\ UNCHANGED <<utils, wallet, pool, monitor>>
  /\ UNCHANGED engineVars

InitGovernance ==
  /\ EngineIdle
  /\ utils = UtilsConstructor(1)
  /\ wallet = WalletConstructor(<<1, 2>>, 2).state
  /\ pool = PoolConstructor
  /\ governance = GovernanceConstructor
  /\ monitor = MonitorConstructor
  /\ receipt = NoReceipt

NextGovernance ==
  \/ \E sender \in Accounts, proposalId \in ProposalIds, support \in BOOLEAN :
       Vote(sender, proposalId, support)
  \/ \E sender \in Accounts : CreateProposal(sender)

SpecGovernance == InitGovernance /\ [][NextGovernance]_vars

\* ====================================================================
\* BaseGasMonitor
\* ====================================================================
\* "Keep only last 100 entries", line 200.
MonitorWindow == 100

\* What the provider quotes, in gwei, to the fetch that arrives at `time`.
QuoteAt(time) == IF time % 2 = 1 THEN 10 ELSE 30

\* A trimming that drops the entry just pushed.
TrimmedNewest(history) ==
  IF Len(history) > MonitorWindow
  THEN SubSeq(history, 1, Len(history) - 1)
  ELSE history

\* Lines 200-202: shift() drops the oldest entry.
Trimmed(history) ==
  IF Len(history) > MonitorWindow THEN Tail(history) ELSE history

\* A run of `monitor` has ended, by line 207 or by the catch of line 209:
\* if it was the awaited initial one (line 215), setInterval is reached.
TickEnded(m) == [m EXCEPT !.pending = m.pending - 1, !.timer = TRUE]

\* monitorGasPrices(): the initial run of `monitor` goes up to its await.
StartMonitoring ==
  /\ ~monitor.timer
  /\ monitor.pending = 0
  /\ monitor' = [monitor EXCEPT !.pending = 1]
  /\ receipt' = NoReceipt
  /\ UNCHANGED <<utils, wallet, pool, governance>>
  /\ UNCHANGED engineVars

\* The interval timer fires, whether or not earlier runs have ended.
IntervalFires ==
  /\ monitor.timer
  /\ monitor.pending < MaxOverlap
  /\ monitor.clock + monitor.pending < MaxSamples
  /\ monitor' = [monitor EXCEPT !.pending = monitor.pending + 1]
  /\ receipt' = NoReceipt
  /\ UNCHANGED <<utils, wallet, pool, governance>>
  /\ UNCHANGED engineVars

\* The price of one of the pending runs arrives: lines 192-207 (of gasData
\* only gwei is kept; wei and eth are the same price in other units).
GasPriceArrives ==
  /\ monitor.pending > 0
  /\ LET now == monitor.clock + 1
         entry == [gwei |-> QuoteAt(now), timestamp |-> now]
     IN monitor' = [TickEnded(monitor) EXCEPT
                      !.clock = now,
                      !.gasHistory = Trimmed(Append(monitor.gasHistory, entry))]
  /\ receipt' = NoReceipt
  /\ UNCHANGED <<utils, wallet, pool, governance>>
  /\ UNCHANGED engineVars

\* getCurrentGasPrice throws for one of the pending runs (the provider
\* rejects, or has no getGasPrice method): lines 145-148, then 209-211.
GasPriceFails ==
  /\ monitor.pending > 0
  /\ monitor' = TickEnded(monitor)
  /\ receipt' = NoReceipt
  /\ UNCHANGED <<utils, wallet, pool, governance>>
  /\ UNCHANGED engineVars

InitMonitor ==
  /\ EngineIdle
  /\ utils = UtilsConstructor(1)
  /\ wallet = WalletConstructor(<<1, 2>>, 2).state
  /\ pool = PoolConstructor
  /\ governance = GovernanceConstructor
  /\ monitor = MonitorConstructor
  /\ receipt = NoReceipt

NextMonitor ==
  \/ StartMonitoring
  \/ IntervalFires
  \/ GasPriceArrives
  \/ GasPriceFails

SpecMonitor == InitMonitor /\ [][NextMonitor]_vars

\* The history and its statistics, with the default options: estimations one
\* at a time, clearHistory and getGasStats at any moment.
InitStats == Constructed({NoOptions})

NextStats ==
  \/ \E tx \in Txs : CallEstimateForStats(tx)
  \/ EstimateAnswer
  \/ ClearHistory
  \/ GetGasStats

SpecStats == InitStats /\ [][NextStats]_vars

\* optimizeContractCall alone, with the default options, for drafts on which
\* the caller has set none, one or all of the gas fields.
DraftInputs ==
  {PlainDraft, PrefilledDraft, [PlainDraft EXCEPT !.maxPriorityFeePerGas = 99]}

InitOptimize ==
  /\ options = Constructor(NoOptions)
  /\ gasHistory = <<>>
  /\ call = NoCall
  /\ tasks = <<>>
  /\ drafts \in [Txs -> DraftInputs]
  /\ stats = NoStats
  /\ ChainDeployed

NextOptimize ==
  \/ \E tx \in Txs : CallOptimizeContractCall(tx)
  \/ PriceAnswer
  \/ EstimateAnswer

SpecOptimize == InitOptimize /\ [][NextOptimize]_vars

\* getOptimalGasPrice alone, for every maxGasPrice.
InitPrice ==
  Constructed({[NoOptions EXCEPT !.maxGasPrice = m] : m \in MaxGasPriceInputs})

NextPrice ==
  \/ CallGetOptimalGasPrice
  \/ PriceAnswer

SpecPrice == InitPrice /\ [][NextPrice]_vars

\* estimateGasWithBuffer and the history alone, for every gasBuffer.
InitEstimate ==
  Constructed({[NoOptions EXCEPT !.gasBuffer = g] : g \in GasBufferInputs})

NextEstimate ==
  \/ \E tx \in Txs : CallEstimateGasWithBuffer(tx)
  \/ ClearHistory
  \/ EstimateAnswer

SpecEstimate == InitEstimate /\ [][NextEstimate]_vars

\* ====================================================================
\* Properties of getOptimalGasPrice, checked under SpecPrice
\* ====================================================================

\* A getOptimalGasPrice call that has returned a value.
PriceResolved == call.op = "getOptimalGasPrice" /\ call.status = "resolved"

\* The returned value was computed by lines 32-42 from a fetched price and a
\* fetched block (no provider call was rejected, nothing was thrown).
PriceComputed ==
  /\ PriceResolved
  /\ options.maxGasPrice # Undefined
  /\ tasks[1].base # NoVal
  /\ tasks[1].blk # NoBlock

\* C1: every value getOptimalGasPrice returns is at most the configured
\* maxGasPrice, whatever the provider answered and whichever of its calls
\* were rejected on the way.
C1_PriceNeverExceedsMax ==
  (PriceResolved /\ options.maxGasPrice > 0) => call.value <= options.maxGasPrice

\* The tier adjustment as the claim states it, on the utilisation
\* c = gasUsed / gasLimit taken as a fraction: c > 0.8, c < 0.3, otherwise.
TierByFraction(p, blk) ==
  IF blk.gasUsed * 10 > 8 * blk.gasLimit THEN (p * 120) \div 100
  ELSE IF blk.gasUsed * 10 < 3 * blk.gasLimit THEN (p * 90) \div 100
  ELSE p

\* C2: for base price p and a block of utilisation c = gasUsed / gasLimit,
\* getOptimalGasPrice returns min(adjusted, maxGasPrice) with adjusted the
\* +20% / -10% / unchanged tier of c (thresholds 0.8 and 0.3).
C2_TieredByUtilisation ==
  (PriceComputed /\ tasks[1].blk.gasLimit > 0 /\ options.maxGasPrice > 0)
    => call.value = Min(TierByFraction(tasks[1].base, tasks[1].blk), options.maxGasPrice)

\* C3: getOptimalGasPrice never rejects because a provider call was rejected:
\* it completes, and when the block fetch was the one rejected it returns the
\* raw, unadjusted price it fetched.
C3_RpcFailureNeverSurfaces ==
  (call.op = "getOptimalGasPrice" /\ options.maxGasPrice > 0) =>
    /\ call.status # "rejected"
    /\ (PriceResolved /\ tasks[1].base # NoVal /\ tasks[1].blk = NoBlock)
         => call.value = tasks[1].base

\* ====================================================================
\* Properties of estimateGasWithBuffer, checked under SpecEstimate
\* ====================================================================

EstimateRunning == call.op = "estimateGasWithBuffer" /\ call.status = "running"
EstimateResolved == call.op = "estimateGasWithBuffer" /\ call.status = "resolved"
EstimateRejected == call.op = "estimateGasWithBuffer" /\ call.status = "rejected"

\* C4: in the step in which the provider rejects the estimateGas call of an
\* estimateGasWithBuffer call with error e, the call rejects with e, exactly
\* one estimateGas call has been made for the transaction and none is left
\* in flight, and the history is as it was.
C4_EstimateFailureSurfaced ==
  [][\A e \in Errors :
       (EstimateRunning /\ EstimateGasFail(1, e)) =>
         /\ call'.status = "rejected"
         /\ call'.error = e
         /\ tasks'[1].nEstimate = 1
         /\ InFlight(tasks') = {}
         /\ gasHistory' = gasHistory]_vars

\* C4 witness: the call was rejected with a provider error while the history
\* already held a record.
C4_Witness ==
  /\ EstimateRejected
  /\ call.error \in Errors
  /\ tasks[1].nEstimate = 1
  /\ Len(gasHistory) >= 1

\* C5: for every gasBuffer >= 1.0 and raw estimate r, estimateGasWithBuffer
\* returns exactly floor(r * gasBuffer), and that is at least r.
C5_BufferedIsFloorOfProduct ==
  (EstimateResolved /\ options.gasBuffer >= 1000) =>
    LET r == GasOf(call.input[1])
    IN /\ call.value = (r * options.gasBuffer) \div 1000
       /\ call.value >= r

\* C6: every record of the history has buffered >= estimated, whatever
\* configuration the engine was constructed with.
C6_BufferedAtLeastEstimated ==
  \A k \in 1 .. Len(gasHistory) : gasHistory[k].buffered >= gasHistory[k].estimated

\* A configuration the specification calls invalid.
InvalidConfiguration ==
  \/ options.gasBuffer # Undefined /\ options.gasBuffer < 1000
  \/ options.batchSize # Undefined /\ options.batchSize < 1

\* C7: an engine holding gasBuffer < 1.0 or batchSize < 1 never performs an
\* estimation or a batch (its construction was rejected).
C7_InvalidConfigurationNeverRuns ==
  InvalidConfiguration =>
    call.op \notin {"estimateGasWithBuffer", "batchTransactions"}

\* ====================================================================
\* Properties of batchTransactions, checked under Spec
\* ====================================================================

BatchCall == call.op = "batchTransactions"
BatchSizeValid == options.batchSize # Undefined /\ options.batchSize >= 1

\* C8: a resolved batchTransactions returns as many elements as it was given
\* and, at every index, the input transaction of that index with the gas
\* price its own task computed and the buffered estimate of that transaction.
C8_BatchOutputInInputOrder ==
  (BatchCall /\ call.status = "resolved" /\ BatchSizeValid) =>
    /\ Len(call.results) = Len(call.input)
    /\ \A i \in 1 .. Len(call.input) :
         /\ call.results[i].tx = call.input[i]
         /\ call.results[i].gasPrice = tasks[i].price
         /\ call.results[i].gasLimit
              = BufferedGas(GasOf(call.input[i]), options.gasBuffer)

\* C8 witness: a batch of two groups resolved whose estimations completed in
\* another order than the input's and whose tasks computed different prices.
C8_Witness ==
  /\ BatchCall /\ call.status = "resolved" /\ BatchSizeValid
  /\ Len(call.batches) = 2
  /\ Len(call.input) = 3
  /\ Len(gasHistory) = 3
  /\ gasHistory[1].estimated = GasOf(call.input[2])
  /\ call.results[1].gasPrice # call.results[2].gasPrice

\* C9: while a batchTransactions call runs, at most batchSize provider calls
\* of its tasks are in flight, and so at most batchSize estimateGas calls.
C9_InFlightAtMostBatchSize ==
  (BatchCall /\ call.status = "running" /\ options.batchSize # Undefined) =>
    /\ Cardinality(InFlight(tasks)) <= options.batchSize
    /\ Cardinality({i \in DOMAIN tasks : tasks[i].pc = "estimateGas"})
         <= options.batchSize

\* C9 witness: batchSize calls are in flight, two of them estimations, while
\* a transaction of the input has not been started.
C9_Witness ==
  /\ BatchCall /\ call.status = "running"
  /\ options.batchSize = 2
  /\ Cardinality({i \in DOMAIN tasks : tasks[i].pc = "estimateGas"}) = 2
  /\ \E i \in DOMAIN tasks : tasks[i].pc = "idle"

\* Twenty-five transactions, for the scenario of C10.
TwentyFive == [j \in 1 .. 25 |-> IF j % 2 = 1 THEN "a" ELSE "b"]

\* C10: the batches are the input cut into contiguous groups in order, each
\* full (batchSize) but the last, which holds 1..batchSize (25 with batchSize
\* 10: 10, 10, 5), and no task of a group has been started unless every task
\* of the group before it is done.
C10_GroupsInOrderOneAtATime ==
  /\ LET bs == Batches(TwentyFive, DefaultBatchSize)
     IN /\ [k \in 1 .. Len(bs) |-> Len(bs[k])] = <<10, 10, 5>>
        /\ Flatten(bs, Len(bs)) = TwentyFive
  /\ (BatchCall /\ BatchSizeValid) =>
       /\ Flatten(call.batches, Len(call.batches)) = call.input
       /\ \A k \in 1 .. Len(call.batches) :
            /\ Len(call.batches[k]) >= 1
            /\ Len(call.batches[k]) <= options.batchSize
            /\ k < Len(call.batches) => Len(call.batches[k]) = options.batchSize
       /\ \A k \in 1 .. Len(call.batches) - 1 :
            (\E j \in Group(call.batches, k + 1) : tasks[j].pc # "idle")
              => \A i \in Group(call.batches, k) : tasks[i].pc = "done"

\* C10 witness: the second group runs, after the two tasks of the first
\* group finished in the reverse of their order.
C10_Witness ==
  /\ BatchCall /\ call.status = "running"
  /\ options.batchSize = 2
  /\ Len(call.batches) = 2
  /\ call.group = 2
  /\ tasks[3].pc \in AwaitingRpc
  /\ gasHistory[1].estimated = GasOf(call.input[2])

\* The tasks of the current call whose body has thrown.
Failed == {i \in DOMAIN tasks : tasks[i].pc = "failed"}

\* Once a task of a batch has failed the call is rejected, not resolved,
\* with the error of a failed task, and no task of a later group has been
\* started.
BatchFailedMeansRejected ==
  (BatchCall /\ Failed # {}) =>
    /\ call.status = "rejected"
    /\ \E i \in Failed : call.error = tasks[i].err
    /\ \A k \in (call.group + 1) .. Len(call.batches) :
         \A j \in Group(call.batches, k) : tasks[j].pc = "idle"

\* C11: in the step in which the provider rejects an estimateGas call of a
\* running batchTransactions with error e, the call rejects with e; and a
\* batch one of whose tasks has failed is rejected, returns no annotated
\* transactions, and has started no task of a later group.
C11_BatchAllOrNothing ==
  /\ []BatchFailedMeansRejected
  /\ [][\A i \in DOMAIN tasks : \A e \in Errors :
          (BatchCall /\ call.status = "running" /\ EstimateGasFail(i, e)) =>
            /\ call'.status = "rejected"
            /\ call'.error = e
            /\ \A j \in DOMAIN tasks' :
                 j > GroupHi(call.batches, call.group) => tasks'[j].pc = "idle"]_vars

\* C11 witness: the estimation of the second transaction of the first group
\* failed after the first had been estimated, and a later group exists.
C11_Witness ==
  /\ BatchCall /\ call.status = "rejected"
  /\ options.batchSize = 2
  /\ Len(call.input) = 3
  /\ tasks[1].pc = "done"
  /\ tasks[2].pc = "failed" /\ tasks[2].nEstimate = 1
  /\ call.error = tasks[2].err
  /\ tasks[3].pc = "idle"

\* C12: a batchTransactions rejected because one estimation failed reports
\* the index of the offending transaction within its group together with
\* the provider's error.
C12_FailureNamesTransaction ==
  \A i \in DOMAIN tasks :
    (BatchCall /\ call.status = "rejected" /\ Failed = {i} /\ tasks[i].nEstimate = 1) =>
      /\ call.error = tasks[i].err
      /\ call.errorIndex = i - GroupLo(call.batches, call.group) + 1

\* ------------------------------------------------------------------- C13
ReadOnlyMethods == {"getGasPrice", "getBlock", "estimateGas"}

EstimatingOps == {"estimateGasWithBuffer", "batchTransactions", "optimizeContractCall"}

\* C13: estimateGasWithBuffer, batchTransactions and optimizeContractCall
\* leave the caller's draft transaction objects and its input array as they
\* were (no step of theirs writes to either; the annotations are in the new
\* objects of the result), and every provider call in flight is a
\* getGasPrice, a getBlock or an estimateGas: nothing is ever submitted.
C13_InputsUntouchedNothingSubmitted ==
  /\ [](\A i \in InFlight(tasks) : ProviderMethod(tasks[i].pc) \in ReadOnlyMethods)
  /\ [][/\ drafts' = drafts
        /\ (call.op \in EstimatingOps /\ call.status = "running") =>
             call'.input = call.input]_vars

C13_Witness ==
  /\ call.op = "optimizeContractCall"
  /\ call.status = "resolved"
  /\ call.input = <<"a">>
  /\ call.results[1].gasLimit = BufferedGas(GasOf("a"), options.gasBuffer)
  /\ drafts["a"] = PlainDraft

\* ------------------------------------------------------------------- C14
OptimizeCall == call.op = "optimizeContractCall"

\* The object the claim describes for transaction tx, price and limit.
Stamped(tx, gasPrice, gasLimit) ==
  [tx |-> tx, gasPrice |-> gasPrice, gasLimit |-> gasLimit, type |-> 2,
   maxFeePerGas |-> gasPrice, maxPriorityFeePerGas |-> DefaultPriorityFee]

\* C14: a resolved optimizeContractCall(call) yields the input call with
\* gasPrice = the price getOptimalGasPrice() returned, gasLimit = the
\* buffered estimate of the call, type = 2, maxFeePerGas = that gasPrice and
\* maxPriorityFeePerGas = the fixed tip, whatever the input carried under
\* these names; the price is the capped, tiered price of the block seen; and
\* when provider.estimateGas fails with e the call rejects with e.
C14_OptimizedCallStamped ==
  /\ []((OptimizeCall /\ call.status = "resolved") =>
          call.results =
            <<Stamped(call.input[1], tasks[1].price,
                      BufferedGas(GasOf(call.input[1]), options.gasBuffer))>>)
  /\ [][\A blk \in Blocks :
          (OptimizeCall /\ call.status = "running" /\ GetBlockOk(1, blk)) =>
            tasks'[1].price =
              CapGasPrice(AdjustedGasPrice(tasks[1].base, getNetworkCongestion(blk)),
                          options.maxGasPrice)]_vars
  /\ [][\A e \in Errors :
          (OptimizeCall /\ call.status = "running" /\ EstimateGasFail(1, e)) =>
            (call'.status = "rejected" /\ call'.error = e)]_vars

\* C14 witness: the draft carried every gas field, the block was full, and
\* the call resolved with the stamped values, not the draft's.
C14_Witness ==
  /\ OptimizeCall /\ call.status = "resolved"
  /\ drafts[call.input[1]] = PrefilledDraft
  /\ call.results[1].gasPrice = 12
  /\ call.results[1].type = 2
  /\ call.results[1].maxPriorityFeePerGas = DefaultPriorityFee

\* ====================================================================
\* Properties of getGasStats and clearHistory, checked under SpecStats
\* ====================================================================
\* getGasStats() returned in the step just taken.
StatsReturned == stats'.kind # "none"

\* C15: getGasStats() on an empty history returns the 'no data' message and
\* no number at all (nothing was divided by the zero length); it returns
\* numeric statistics exactly when the history holds a record.
C15_EmptyHistoryGivesNoData ==
  [][StatsReturned =>
       /\ (gasHistory = <<>>) <=> (stats'.kind = "message")
       /\ (gasHistory # <<>>) <=> (stats'.kind = "stats")
       /\ stats'.kind = "message" =>
            /\ stats'.totalTransactions = NoVal
            /\ stats'.recentAvgEstimated = NoVal
            /\ stats'.recentAvgBuffered = NoVal
            /\ stats'.bufferEfficiency = NoVal
       /\ stats'.kind = "stats" =>
            /\ stats'.totalTransactions >= 1
            /\ stats'.recentAvgEstimated >= 0
            /\ stats'.recentAvgBuffered >= 0]_vars

\* C15 witness: the 'no data' result, returned on a history never written.
C15_Witness ==
  /\ stats = NoHistoryMessage
  /\ gasHistory = <<>>
  /\ call = NoCall

\* ------------------------------------------------------------------- C16
\* The last k records of a history, oldest first.
LastRecords(history, k) == [j \in 1 .. k |-> history[Len(history) - k + j]]

RECURSIVE Total(_, _, _)
Total(records, field, k) ==
  IF k = 0 THEN 0 ELSE records[k][field] + Total(records, field, k - 1)

\* C16: with n >= 1 records, getGasStats() reports totalTransactions = n and
\* the two averages of exactly the last min(n, 10) records, and leaves the
\* history as it was.
C16_AveragesOverLastTen ==
  [][(StatsReturned /\ Len(gasHistory) >= 1) =>
       LET n == Len(gasHistory)
           k == Min(n, 10)
           window == LastRecords(gasHistory, k)
       IN /\ stats'.totalTransactions = n
          /\ stats'.recentAvgEstimated = Total(window, "estimated", k) \div k
          /\ stats'.recentAvgBuffered = Total(window, "buffered", k) \div k
          /\ gasHistory' = gasHistory]_vars

\* C16 witness: eleven records, the oldest one the only large one: the
\* statistics count eleven and average the ten small ones.
C16_Witness ==
  /\ Len(gasHistory) = 11
  /\ gasHistory[1].estimated = GasOf("a")
  /\ \A j \in 2 .. 11 : gasHistory[j].estimated = GasOf("b")
  /\ stats.kind = "stats"
  /\ stats.totalTransactions = 11
  /\ stats.recentAvgEstimated = GasOf("b")

\* ------------------------------------------------------------------- C17
\* An estimateGasWithBuffer completes in this step: line 59 is reached.
EstimationCompletes ==
  \E i \in DOMAIN tasks :
    tasks[i].pc = "estimateGas" /\ i \in DOMAIN tasks' /\ tasks'[i].pc = "done"

\* C17: clearHistory() leaves the history empty; an empty history stays
\* empty until an estimation completes, and getGasStats() on it returns the
\* 'no data' result; the first estimation to complete afterwards makes the
\* count 1, and the count reported is always the length of the history.
C17_ClearRestartsHistory ==
  [][/\ ClearHistory => gasHistory' = <<>>
     /\ (gasHistory = <<>> /\ ~EstimationCompletes) => gasHistory' = <<>>
     /\ (gasHistory = <<>> /\ StatsReturned) => stats' = NoHistoryMessage
     /\ (gasHistory = <<>> /\ EstimationCompletes) => Len(gasHistory') = 1
     /\ stats'.kind = "stats" => stats'.totalTransactions = Len(gasHistory')]_vars

\* C17 witness: an estimation had resolved, so the history held its record;
\* the history is empty now and getGasStats() has just said 'no data'.
C17_Witness ==
  /\ call.op = "estimateGasWithBuffer"
  /\ call.status = "resolved"
  /\ gasHistory = <<>>
  /\ stats = NoHistoryMessage

\* ====================================================================
\* The history as a log, checked under Spec
\* ====================================================================
\* The estimateGasWithBuffer of task i completes in this step.
Completes(i) ==
  /\ tasks[i].pc = "estimateGas"
  /\ i \in DOMAIN tasks'
  /\ tasks'[i].pc = "done"

\* C18: the history is an append-only log.  Every step either leaves it as
\* it is, and then no estimation completed; or is a clearHistory(); or is
\* the completion of exactly one estimation, which adds that estimation's
\* record at the end and touches no record before it.  So its length is the
\* number of estimations completed since construction or the last clearing,
\* in completion order, however the estimations of a group interleave.
C18_HistoryAppendOnly ==
  [][\/ gasHistory' = gasHistory /\ \A i \in DOMAIN tasks : ~Completes(i)
     \/ ClearHistory
     \/ \E i \in DOMAIN tasks :
          /\ Completes(i)
          /\ \A j \in DOMAIN tasks : Completes(j) => j = i
          /\ Len(gasHistory') = Len(gasHistory) + 1
          /\ SubSeq(gasHistory', 1, Len(gasHistory)) = gasHistory
          /\ gasHistory'[Len(gasHistory')] =
               [estimated |-> GasOf(tasks[i].tx), buffered |-> tasks'[i].gasLimit]]_vars

\* C18 witness: the two estimations of one group completed second first,
\* and the history holds their records in that order.
C18_Witness ==
  /\ BatchCall /\ call.input = <<"a", "b">>
  /\ options.batchSize = 2
  /\ tasks[1].pc = "done" /\ tasks[2].pc = "done"
  /\ Len(gasHistory) = 2
  /\ gasHistory[1].estimated = GasOf("b")
  /\ gasHistory[2].estimated = GasOf("a")

\* ====================================================================
\* The congestion of particular blocks, checked under SpecPrice
\* ====================================================================
\* C19: when the latest block reports gasLimit = 0 the call does not fail:
\* the congestion is the 0.5 of an unknown congestion, and getOptimalGasPrice
\* resolves with the price it fetched, unadjusted, clamped to maxGasPrice.
C19_ZeroGasLimitIsMediumTier ==
  (call.op = "getOptimalGasPrice" /\ options.maxGasPrice # Undefined
     /\ tasks[1].blk # NoBlock /\ tasks[1].blk.gasLimit = 0) =>
    /\ getNetworkCongestion(tasks[1].blk) = 5
    /\ call.status = "resolved"
    /\ call.value = Min(tasks[1].base, options.maxGasPrice)

\* C19 witness: a block of gasLimit 0 was fetched and the fetched price of
\* 10, below the maximum, was returned as it is.
C19_Witness ==
  /\ PriceComputed
  /\ tasks[1].blk.gasLimit = 0
  /\ tasks[1].base = 10
  /\ options.maxGasPrice = DefaultMaxGasPrice
  /\ call.value = 10

\* C20: for a latest block with gasUsed = gasLimit > 0 the congestion is
\* exactly 1.0 and getOptimalGasPrice takes the high tier: it returns the
\* fetched price * 120 / 100, clamped to maxGasPrice.
C20_FullBlockIsHighTier ==
  (PriceComputed /\ tasks[1].blk.gasLimit > 0
     /\ tasks[1].blk.gasUsed = tasks[1].blk.gasLimit) =>
    /\ getNetworkCongestion(tasks[1].blk) = 10
    /\ call.value = Min((tasks[1].base * 120) \div 100, options.maxGasPrice)

\* C20 witness: a full block, a fetched price of 10, and 12 returned.
C20_Witness ==
  /\ PriceComputed
  /\ tasks[1].blk = [gasUsed |-> 10, gasLimit |-> 10]
  /\ tasks[1].base = 10
  /\ options.maxGasPrice = DefaultMaxGasPrice
  /\ call.value = 12

\* ====================================================================
\* The configuration, checked under SpecConfig
\* ====================================================================
\* A value the caller cannot have meant: undefined, or 0.
Unusable == {Undefined, 0}

\* C21: after construction no key of the configuration holds undefined or
\* 0: a key the caller left out, or gave as undefined or 0, holds its
\* default (20 gwei, 1.1, 10); and no operation changes the configuration.
C21_DefaultsForUnusableValues ==
  /\ [](/\ options.maxGasPrice \notin Unusable
        /\ options.gasBuffer \notin Unusable
        /\ options.batchSize \notin Unusable)
  /\ [][options' = options]_vars

\* ====================================================================
\* BaseContractUtils, checked under SpecUtils
\* ====================================================================
RegisteredNames == Names \ {""}

\* C22: the registry is one-to-one.  A name maps to an address exactly when
\* that address's record holds the name (so no name has two addresses and
\* no address two names); the empty name maps to nothing; a registration is
\* never changed or removed; and a rejected registerBasename leaves both
\* mappings as they were.
C22_RegistryOneToOne ==
  /\ [](/\ \A n \in RegisteredNames : \A a \in Accounts :
             (utils.basenameToAddress[n] = a) <=> (utils.basenames[a].basename = n)
        /\ \A n \in RegisteredNames : utils.basenameToAddress[n] \in Address
        /\ utils.basenameToAddress[""] = ZeroAddress
        /\ \A a \in Accounts :
             utils.basenames[a].basename # "" =>
               utils.basenames[a].owner = a /\ utils.basenames[a].isActive)
  /\ [][/\ \A a \in Accounts :
             utils.basenames[a].basename # "" => utils'.basenames[a] = utils.basenames[a]
        /\ \A n \in Names :
             utils.basenameToAddress[n] # ZeroAddress =>
               utils'.basenameToAddress[n] = utils.basenameToAddress[n]
        /\ (receipt'.fn = "registerBasename" /\ receipt'.status = "reverted") =>
             utils' = utils]_vars

\* C22 witness: two names registered by two accounts, and the attempt of a
\* third account to take one of them just rejected.
C22_Witness ==
  /\ utils.basenameToAddress["alice"] = 2
  /\ utils.basenameToAddress["bob"] = 1
  /\ utils.basenames[3].basename = ""
  /\ receipt.fn = "registerBasename"
  /\ receipt.status = "reverted"
  /\ receipt.reason = "Basename already taken"
  /\ receipt.sender = 3

\* emergencyWithdraw() was the transaction of the step just taken.
Withdrew == receipt'.fn = "emergencyWithdraw"

\* C23: emergencyWithdraw succeeds only for the contract owner, and then the
\* whole balance of the contract goes to the owner; called by any other
\* address it reverts, and a revert leaves the balance (and all the rest of
\* the storage) as it was.
C23_OnlyOwnerWithdraws ==
  [][Withdrew =>
       /\ receipt'.status = "success" =>
            /\ receipt'.sender = utils.owner
            /\ receipt'.paid = [to |-> utils.owner, amount |-> utils.balance]
            /\ utils'.balance = 0
       /\ receipt'.sender # utils.owner => receipt'.status = "reverted"
       /\ receipt'.status = "reverted" => utils' = utils]_vars

\* C23 witness: the owner has just withdrawn the two units the contract
\* held.
C23_Witness ==
  /\ receipt.fn = "emergencyWithdraw"
  /\ receipt.status = "success"
  /\ receipt.paid.amount = 2
  /\ receipt.paid.to = utils.owner
  /\ utils.balance = 0

\* ====================================================================
\* BaseMultiSigWallet, checked under SpecWallet
\* ====================================================================
Executed(w, k) == w.transactions[k].executed

\* C24: executeTransaction(i) succeeds only for an owner, on a transaction
\* that exists, is not executed yet and has at least numConfirmationsRequired
\* confirmations at that moment, and whose call succeeds; the executed flag
\* is set by such a step only and, once true, stays true: the call of a
\* transaction is performed successfully at most once.
C24_ExecutedAtMostOnce ==
  /\ [][\A sender \in Accounts : \A i \in TxIndexes : \A success \in BOOLEAN :
          (ExecuteTransaction(sender, i, success) /\ receipt'.status = "success") =>
            /\ wallet.isOwner[sender]
            /\ i < Len(wallet.transactions)
            /\ ~TxAt(wallet, i).executed
            /\ TxAt(wallet, i).numConfirmations >= wallet.numConfirmationsRequired
            /\ success
            /\ TxAt(wallet', i).executed]_vars
  /\ [][\A k \in DOMAIN wallet.transactions :
          /\ Executed(wallet, k) => Executed(wallet', k)
          /\ (~Executed(wallet, k) /\ Executed(wallet', k)) =>
               (receipt'.fn = "executeTransaction" /\ receipt'.status = "success")]_vars

\* C24 witness: the first transaction was executed, and an owner's attempt
\* to execute it again has just been turned down.
C24_Witness ==
  /\ Len(wallet.transactions) >= 1
  /\ wallet.transactions[1].executed
  /\ receipt.fn = "executeTransaction"
  /\ receipt.status = "reverted"
  /\ receipt.reason = "Already executed"

\* The addresses that have confirmed transaction k.
Confirmers(w, k) == {a \in Address : w.transactions[k].isConfirmed[a]}

\* C25: for every transaction, numConfirmations is the number of addresses
\* with isConfirmed true, each of them is an owner, and there are no more
\* of them than owners; a confirmTransaction that reverts (non-owner, second
\* confirmation by the same owner, executed or missing transaction) changes
\* nothing, and one that succeeds was none of these.
C25_ConfirmationsCounted ==
  /\ [](\A k \in DOMAIN wallet.transactions :
          /\ wallet.transactions[k].numConfirmations = Cardinality(Confirmers(wallet, k))
          /\ \A a \in Confirmers(wallet, k) : wallet.isOwner[a]
          /\ wallet.transactions[k].numConfirmations <= Len(wallet.owners))
  /\ [][\A sender \in Accounts : \A i \in TxIndexes :
          ConfirmTransaction(sender, i) =>
            /\ receipt'.status = "reverted" => wallet' = wallet
            /\ receipt'.status = "success" <=>
                 /\ wallet.isOwner[sender]
                 /\ i < Len(wallet.transactions)
                 /\ ~TxAt(wallet, i).executed
                 /\ ~TxAt(wallet, i).isConfirmed[sender]]_vars

\* C25 witness: both owners have confirmed the first transaction, and the
\* second confirmation of one of them has just been turned down.
C25_Witness ==
  /\ Len(wallet.owners) = 2
  /\ Len(wallet.transactions) >= 1
  /\ wallet.transactions[1].numConfirmations = 2
  /\ receipt.fn = "confirmTransaction"
  /\ receipt.status = "reverted"
  /\ receipt.reason = "Already confirmed"

\* C26: when the call made by executeTransaction fails, the transaction
\* reverts: no ExecuteTransaction is emitted, the executed flag is still
\* false, the confirmations (all the storage) are as before, and the same
\* transaction can still be executed.
C26_FailedCallReverts ==
  [][\A sender \in Accounts : \A i \in TxIndexes :
       (ExecuteRejected(wallet, sender, i) = "" /\ ExecuteTransaction(sender, i, FALSE)) =>
         /\ receipt'.status = "reverted"
         /\ receipt'.reason = "Transaction failed"
         /\ ~TxAt(wallet', i).executed
         /\ wallet' = wallet
         /\ ExecuteRejected(wallet', sender, i) = ""]_vars

\* C26 witness: the call of the first transaction, confirmed by as many
\* owners as required, has just failed, and the transaction is not executed.
C26_Witness ==
  /\ Len(wallet.transactions) >= 1
  /\ wallet.numConfirmationsRequired = 2
  /\ wallet.transactions[1].numConfirmations = 2
  /\ ~wallet.transactions[1].executed
  /\ receipt.fn = "executeTransaction"
  /\ receipt.status = "reverted"
  /\ receipt.reason = "Transaction failed"

\* The addresses of the owners array.
OwnerSet(w) == {w.owners[j] : j \in DOMAIN w.owners}

\* C27: a constructed wallet has a non-empty list of distinct owners, none of
\* them address(0), isOwner is true for exactly them, and 1 <=
\* numConfirmationsRequired <= number of owners; no step changes the owners,
\* isOwner or the threshold.
C27_OwnersAndThresholdFixed ==
  /\ [](/\ Len(wallet.owners) >= 1
        /\ Cardinality(OwnerSet(wallet)) = Len(wallet.owners)
        /\ ZeroAddress \notin OwnerSet(wallet)
        /\ \A a \in Address : wallet.isOwner[a] <=> a \in OwnerSet(wallet)
        /\ wallet.numConfirmationsRequired >= 1
        /\ wallet.numConfirmationsRequired <= Len(wallet.owners))
  /\ [][/\ wallet'.owners = wallet.owners
        /\ wallet'.isOwner = wallet.isOwner
        /\ wallet'.numConfirmationsRequired = wallet.numConfirmationsRequired]_vars

\* C27 witness: a wallet of two owners, both required, has been used up to
\* the execution of a transaction.
C27_Witness ==
  /\ wallet.owners = <<2, 3>>
  /\ wallet.numConfirmationsRequired = 2
  /\ Len(wallet.transactions) >= 1
  /\ wallet.transactions[1].executed

\* ====================================================================
\* BaseStakingPool, checked under SpecPool
\* ====================================================================
RECURSIVE SumStakes(_, _)
SumStakes(stakes, users) ==
  IF users = {} THEN 0
  ELSE LET u == CHOOSE x \in users : TRUE
       IN stakes[u] + SumStakes(stakes, users \ {u})

\* C28: totalStaked is the sum of stakes[u] over all users; a withdraw of
\* more than the caller's stake reverts and leaves stakes and totalStaked as
\* they were; a withdraw that succeeds pays the caller the amount asked,
\* which is at most the caller's stake, and takes it off that stake.
C28_TotalIsSumOfStakes ==
  /\ [](/\ pool.totalStaked = SumStakes(pool.stakes, Accounts)
        /\ \A u \in Accounts : pool.stakes[u] >= 0)
  /\ [][\A sender \in Accounts : \A amount \in WithdrawAmounts : \A accepted \in BOOLEAN :
          Withdraw(sender, amount, accepted) =>
            /\ amount > pool.stakes[sender] =>
                 (receipt'.status = "reverted" /\ pool' = pool)
            /\ receipt'.status = "success" =>
                 /\ amount <= pool.stakes[sender]
                 /\ receipt'.paid = [to |-> sender, amount |-> amount]
                 /\ pool'.stakes[sender] = pool.stakes[sender] - amount]_vars

\* C28 witness: two users hold stakes, and the attempt of one of them to
\* withdraw more than its own stake, though the pool holds that much, has
\* just been turned down.
C28_Witness ==
  /\ pool.stakes[1] = 1
  /\ pool.stakes[2] = 2
  /\ pool.totalStaked = 3
  /\ receipt.fn = "withdraw"
  /\ receipt.sender = 1
  /\ receipt.status = "reverted"
  /\ receipt.reason = "Insufficient stake"

\* ====================================================================
\* BaseGovernance, checked under SpecGovernance
\* ====================================================================
\* The addresses that have voted on proposal p.
Voters(g, p) == {a \in Accounts : g.hasVoted[a][p]}

\* C29: each address votes at most once per proposal id.  For every id the
\* two tallies add up to the number of addresses that have voted on it; a
\* vote by an address that has voted on the id reverts and leaves the
\* storage as it was; a vote that succeeds adds one to one tally; and no
\* tally ever decreases.
C29_OneVotePerAddress ==
  /\ [](\A p \in ProposalIds :
          governance.votesFor[p] + governance.votesAgainst[p]
            = Cardinality(Voters(governance, p)))
  /\ [][\A sender \in Accounts : \A p \in ProposalIds : \A support \in BOOLEAN :
          Vote(sender, p, support) =>
            /\ governance.hasVoted[sender][p] =>
                 (receipt'.status = "reverted" /\ governance' = governance)
            /\ ~governance.hasVoted[sender][p] =>
                 /\ receipt'.status = "success"
                 /\ governance'.votesFor[p] + governance'.votesAgainst[p]
                      = governance.votesFor[p] + governance.votesAgainst[p] + 1]_vars
  /\ [][\A p \in ProposalIds :
          /\ governance'.votesFor[p] >= governance.votesFor[p]
          /\ governance'.votesAgainst[p] >= governance.votesAgainst[p]]_vars

\* C29 witness: two addresses voted on proposal 1, one each way, and the
\* second vote of one of them has just been turned down.
C29_Witness ==
  /\ governance.votesFor[1] = 1
  /\ governance.votesAgainst[1] = 1
  /\ governance.hasVoted[2][1]
  /\ receipt.fn = "vote"
  /\ receipt.sender = 2
  /\ receipt.status = "reverted"
  /\ receipt.reason = "Already voted"

\* ====================================================================
\* BaseGasMonitor, checked under SpecMonitor
\* ====================================================================
\* C30: the history of the monitor holds at most 100 entries, and they are
\* the latest samples that arrived, oldest first, each with the price that
\* was quoted to it, however the pending ticks overlap; a tick whose fetch
\* fails leaves the history as it was, and ticks go on after it.
C30_MonitorKeepsLatestHundred ==
  /\ [](LET h == monitor.gasHistory
        IN /\ Len(h) <= 100
           /\ Len(h) = Min(monitor.clock, 100)
           /\ \A j \in DOMAIN h :
                /\ h[j].timestamp = monitor.clock - Len(h) + j
                /\ h[j].gwei = QuoteAt(h[j].timestamp))
  /\ [][(monitor'.pending < monitor.pending /\ monitor'.clock = monitor.clock) =>
          /\ monitor'.gasHistory = monitor.gasHistory
          /\ monitor'.timer]_vars

\* C30 witness: 101 samples have arrived, the history holds the last hundred
\* of them, and a tick that overlapped the latest arrival is still pending.
C30_Witness ==
  /\ monitor.clock = 101
  /\ Len(monitor.gasHistory) = 100
  /\ monitor.gasHistory[1].timestamp = 2
  /\ monitor.gasHistory[100].timestamp = 101
  /\ monitor.pending = 1
  /\ monitor.timer

\* ====================================================================
\* batchTransactions after it has settled, checked under Spec
\* ====================================================================
\* The caller's batchTransactions call has resolved or rejected.
BatchSettled ==
  /\ call.op = "batchTransactions"
  /\ call.status \in {"resolved", "rejected"}

\* C31: once a batchTransactions call has settled, none of the provider
\* calls it started is still in flight, and no step taken after it settled
\* appends a record to the history, also when it rejected because one
\* transaction of a group failed while others of the group were pending.
C31_NothingLeftAfterSettling ==
  /\ [](BatchSettled => InFlight(tasks) = {})
  /\ [][BatchSettled => Len(gasHistory') <= Len(gasHistory)]_vars

====
